---- MODULE Spec2Model ----
(***************************************************************************)
(* Replicated shard update core of ShardReplicaSet                         *)
(* (lib/collection/src/shards/replica_set/update.rs): leader selection,    *)
(* the write-ordering lock, the fan-out to the eligible replicas, the      *)
(* consistency-factor evaluation and the deactivation of failed replicas,  *)
(* running against a consensus layer that changes the replica-state table. *)
(***************************************************************************)
EXTENDS Integers, Sequences, FiniteSets, TLC

\* ------------------------------------------------------------------ bounds
NumPeers == 3
MaxW == 2
NumCalls == 2
NumConcPeers == 2
MaxConcurrency == 2

\* this_peer_id of the replica set under study (the id the tests build it with)
ThisPeerId == 1

\* Largest budget a CpuBudget is created with
MaxBudget == 3

\* Largest desired_cpus a task asks try_acquire for
MaxDesired == 3

\* Tasks that use the CpuBudget concurrently
NumTasks == 2

\* Largest number of CPUs get_num_cpus finds
MaxCpus == 144

\* Width of isize and usize, scaled down from 64 bits
IsizeBits == 9

\* First delay of block_until_budget, in microseconds
InitialDelay == 100

\* Longest delay of block_until_budget, in microseconds (10 seconds)
MaxDelay == 10000000

\* this_peer_id of another member of the replica set (one of the test's remotes)
OtherPeerId == 2

PeerIds == 1..NumPeers
CallIds == 1..NumCalls
TaskIds == 1..NumTasks

\* ------------------------------------------------------------- data model
ReplicaStates ==
    {"Active", "Initializing", "Partial", "PartialSnapshot", "Listener", "Dead"}

\* peer_state(p) = None: the peer is no key of replica_state.peers
Absent == "None"

WriteOrderings == {"Weak", "Medium", "Strong"}

\* Errors a replica's update / forward_update call can come back with: one
\* transient (a timeout) and one non-transient (a malformed request).
ReplicaErrors == {"Timeout", "BadInput"}

\* What a replica's update call comes back with
Outcomes == {"Ok"} \union ReplicaErrors

\* CollectionError::is_transient on the errors of a replica
IsTransient(err) == err = "Timeout"

\* CollectionError::service_error(msg): the message is kept as a tag
ServiceError(msg) == [tag |-> "Err", error |-> "ServiceError", msg |-> msg, peer |-> {}]

\* A replica's own error, returned as it is; peer is the replica it came from
ReplicaError(err, p) == [tag |-> "Err", error |-> err, msg |-> "", peer |-> {p}]

\* Ok(res): res is the UpdateResult of replica p
OkResult(p) == [tag |-> "Ok", error |-> "", msg |-> "", peer |-> {p}]

NoResult == [tag |-> "None", error |-> "", msg |-> "", peer |-> {}]

VARIABLES
    replica_state,          \* PeerId -> ReplicaState, Absent for a missing key
    locally_disabled,       \* set of PeerId
    write_ordering_lock,    \* the call holding the mutex: {} or {c}
    pc,                     \* where each call of update_with_consistency stands
    wait,                   \* the call's wait argument
    ordering,               \* the call's ordering argument
    leader,                 \* leader_peer_for_update's answer: {} or {p}
    local,                  \* update(): whether the guard of self.local holds Some
    active_remote_shards,   \* update(): remotes that passed the filter
    update_futures,         \* update(): the per-replica calls, [peer, wait]
    wcf,                    \* write_consistency_factor as read by update()
    minimal_success_count,  \* update(): the threshold
    successes,              \* update(): sequence of peers that returned Ok
    failures,               \* update(): sequence of [peer, err]
    result,                 \* what the call returned
    other_replica_state,    \* replica_state as another peer holds it
    other_locally_disabled, \* that peer's local-disable set
    other_pc,               \* where that peer's update_with_consistency stands
    other_ordering,         \* its ordering argument
    other_leader,           \* its leader_peer_for_update's answer: {} or {p}
    local_update,           \* the last call of update_local and what it did
    update_concurrency,     \* shared_storage_config.update_concurrency: {} or {k}
    in_flight,              \* fan-out: the futures being run
    collected,              \* fan-out: the results collected so far, in order
    cpu_budget,             \* what CpuBudget::new was given
    semaphore,              \* the semaphore's available permits
    cpu_task,               \* each task's call of try_acquire and its CpuPermit
    overflow_checks,        \* whether the build checks integer overflow
    num_cpus_found,         \* what get_num_cpus returns
    cpu_budget_param,       \* the cpu_budget setting given to get_cpu_budget
    budget_found,           \* what get_cpu_budget came back with
    waiter                  \* the thread in block_until_budget: where, and its delay

\* What a call of update_with_consistency at this peer leaves alone: the
\* replica set of the other peer
other_peer == <<other_replica_state, other_locally_disabled, other_pc,
                other_ordering, other_leader>>

\* The fan-out of update() taken one replica call at a time
fan_out == <<update_concurrency, in_flight, collected>>

\* The CpuBudget and the tasks that use it
cpu == <<cpu_budget, semaphore, cpu_task>>

\* The sizing of the budget from the cpu_budget setting
sizing == <<overflow_checks, num_cpus_found, cpu_budget_param, budget_found>>

elsewhere == <<other_peer, local_update, fan_out, cpu, sizing, waiter>>

\* The replica set of this peer and its calls of update_with_consistency
this_peer == <<replica_state, locally_disabled, write_ordering_lock, pc, wait,
               ordering, leader, local, active_remote_shards, update_futures,
               wcf, minimal_success_count, successes, failures, result>>

vars == <<this_peer, elsewhere>>

shared == <<replica_state, locally_disabled>>
locals == <<local, active_remote_shards, update_futures, wcf,
            minimal_success_count, successes, failures>>

\* ---------------------------------------------------------------- helpers
Min(a, b) == IF a <= b THEN a ELSE b

SetMax(S) == CHOOSE x \in S : \A y \in S : y <= x

\* replica_state.peers.keys()
Keys(state) == {p \in PeerIds : state[p] # Absent}

\* self.remotes: one handle per other member of the replica set
Remotes == Keys(replica_state) \ {ThisPeerId}

PeerState(p) == replica_state[p]

IsLocallyDisabled(p) == p \in locally_disabled

\* add_locally_disabled(peer): the set after the call
AddLocallyDisabled(disabled, p) == disabled \union {p}

\* peer_is_active over the replica states and the local-disable set given
PeerIsActiveIn(state, disabled, p) == state[p] = "Active" /\ p \notin disabled

PeerIsActive(p) == PeerIsActiveIn(replica_state, locally_disabled, p)

\* Mutant of PeerIsActiveOrPending: the local-disable set is not consulted
PeerIsActiveOrPendingIgnoringDisabled(p) ==
    PeerState(p) \in {"Active", "Partial", "Initializing", "Listener"}

\* Lines 271-282
PeerIsActiveOrPending(p) ==
    LET res == CASE PeerState(p) = "Active" -> TRUE
                 [] PeerState(p) = "Partial" -> TRUE
                 [] PeerState(p) = "Initializing" -> TRUE
                 [] PeerState(p) = "Dead" -> FALSE
                 [] PeerState(p) = "Listener" -> TRUE
                 [] PeerState(p) = "PartialSnapshot" -> FALSE
                 [] OTHER -> FALSE
    IN  res /\ ~IsLocallyDisabled(p)

\* ------------------------------------------------------- leader selection
\* The selection as a function of what it reads of the replica set: the peer's
\* own id, its replica states and its local-disable set.

\* Mutant of HighestAliveReplicaPeerIdIn: the local-disable set is not consulted
HighestAliveReplicaPeerIdIgnoringDisabled(state, disabled) ==
    LET alive == {p \in Keys(state) : state[p] = "Active"}
    IN  IF alive = {} THEN {} ELSE {SetMax(alive)}

\* Lines 90-99
HighestAliveReplicaPeerIdIn(state, disabled) ==
    LET alive == {p \in Keys(state) : PeerIsActiveIn(state, disabled, p)}
    IN  IF alive = {} THEN {} ELSE {SetMax(alive)}

\* Mutant of HighestReplicaPeerIdIn: a Dead member is passed over
HighestReplicaPeerIdNotDead(state) ==
    LET live == {p \in Keys(state) : state[p] # "Dead"}
    IN  IF live = {} THEN {} ELSE {SetMax(live)}

\* Lines 101-103
HighestReplicaPeerIdIn(state) ==
    IF Keys(state) = {} THEN {} ELSE {SetMax(Keys(state))}

\* Lines 82-88
LeaderPeerForUpdateIn(this_peer_id, state, disabled, o) ==
    CASE o = "Weak" -> {this_peer_id}
      [] o = "Medium" -> HighestAliveReplicaPeerIdIn(state, disabled)
      [] o = "Strong" -> HighestReplicaPeerIdIn(state)

\* The selection at this peer
HighestAliveReplicaPeerId ==
    HighestAliveReplicaPeerIdIn(replica_state, locally_disabled)

HighestReplicaPeerId == HighestReplicaPeerIdIn(replica_state)

LeaderPeerForUpdate(o) ==
    LeaderPeerForUpdateIn(ThisPeerId, replica_state, locally_disabled, o)

\* ------------------------------------------------------------------- Init
InitCalls ==
    /\ write_ordering_lock = {}
    /\ pc = [c \in CallIds |-> "idle"]
    /\ wait = [c \in CallIds |-> FALSE]
    /\ ordering = [c \in CallIds |-> "Weak"]
    /\ leader = [c \in CallIds |-> {}]
    /\ local = [c \in CallIds |-> FALSE]
    /\ active_remote_shards = [c \in CallIds |-> {}]
    /\ update_futures = [c \in CallIds |-> {}]
    /\ wcf = [c \in CallIds |-> 0]
    /\ minimal_success_count = [c \in CallIds |-> 0]
    /\ successes = [c \in CallIds |-> <<>>]
    /\ failures = [c \in CallIds |-> <<>>]
    /\ result = [c \in CallIds |-> NoResult]

\* The other peer, making no call
OtherIdle ==
    /\ other_pc = "idle"
    /\ other_ordering = "Weak"
    /\ other_leader = {}

\* The other peer holds an empty replica set and makes no call
NoOtherPeer ==
    /\ other_replica_state = [p \in PeerIds |-> Absent]
    /\ other_locally_disabled = {}
    /\ OtherIdle

\* update_local has not been called
NoLocalUpdate ==
    [local_is_some |-> FALSE, wait |-> FALSE, called |-> FALSE,
     local_wait |-> FALSE, result |-> "None"]

\* No fan-out is under way
NoFanOut ==
    /\ in_flight = [c \in CallIds |-> {}]
    /\ collected = [c \in CallIds |-> <<>>]

\* A task that has not called try_acquire and holds no CpuPermit
IdleTask ==
    [pc |-> "idle", desired_cpus |-> 0, num_cpus |-> 0, returned |-> "-",
     live |-> FALSE, permit |-> 0]

\* Nobody is in block_until_budget
NoWaiter == [pc |-> "idle", delay |-> 0]

\* get_cpu_budget has not been called
NoSizing ==
    /\ overflow_checks = FALSE
    /\ num_cpus_found = 1
    /\ cpu_budget_param = 1
    /\ budget_found = [called |-> FALSE, panicked |-> FALSE, budget |-> 0]

\* CpuBudget::new(n) with no task using it yet
NewCpuBudget(n) ==
    /\ cpu_budget = n
    /\ semaphore = n
    /\ cpu_task = [t \in TaskIds |-> IdleTask]

\* Nothing but this peer's update_with_consistency is looked at, and its
\* fan-out as a whole
InitElsewhere ==
    /\ NoOtherPeer
    /\ local_update = NoLocalUpdate
    /\ update_concurrency = {}
    /\ NoFanOut
    /\ NewCpuBudget(1)
    /\ NoSizing
    /\ waiter = NoWaiter

\* The replica set once consensus has given its members their states; nothing
\* is locally disabled yet.
Init ==
    /\ replica_state \in [PeerIds -> ReplicaStates \union {Absent}]
    /\ locally_disabled = {}
    /\ InitCalls
    /\ InitElsewhere

\* ------------------------------------------------------ returning a result
\* The call returns res: the ordering guard, if this call holds it, is dropped,
\* and so are the result vectors (lines 248 and 263 consume them).
Return(c, res) ==
    /\ pc' = [pc EXCEPT ![c] = "done"]
    /\ result' = [result EXCEPT ![c] = res]
    /\ write_ordering_lock' = write_ordering_lock \ {c}
    /\ successes' = [successes EXCEPT ![c] = <<>>]
    /\ failures' = [failures EXCEPT ![c] = <<>>]


\* ------------------------------------------------------------ update_local
\* Mutant of UpdateLocalCall: a Listener local replica is waited for
UpdateLocalCallListenerWaits(local_is_some, state, w) ==
    IF local_is_some
    THEN CASE state \in {"Active", "Partial", "Initializing", "Listener"} ->
                  [called |-> TRUE, local_wait |-> w]
           [] OTHER -> [called |-> FALSE, local_wait |-> FALSE]
    ELSE [called |-> FALSE, local_wait |-> FALSE]

\* Lines 24-36: whether the local shard's update is called, and with which
\* wait, for local being Some or None and this peer's state
UpdateLocalCall(local_is_some, state, w) ==
    IF local_is_some
    THEN CASE state \in {"Active", "Partial", "Initializing"} ->
                  [called |-> TRUE, local_wait |-> w]
           [] state = "Listener" ->
                  [called |-> TRUE, local_wait |-> FALSE]
           [] state \in {"PartialSnapshot", "Dead"} \/ state = Absent ->
                  [called |-> FALSE, local_wait |-> FALSE]
    ELSE [called |-> FALSE, local_wait |-> FALSE]

\* Lines 19-37: update the local shard, if any, without forwarding to the
\* remotes. The local shard's error is the call's error; no call is Ok(None).
\* Whether self.local holds a shard is the host's doing.
UpdateLocal(w) ==
    /\ \E local_is_some \in BOOLEAN :
          LET call == UpdateLocalCall(local_is_some, PeerState(ThisPeerId), w)
          IN  \E res \in IF call.called THEN Outcomes ELSE {"Ok"} :
                 local_update' =
                     [local_is_some |-> local_is_some, wait |-> w,
                      called |-> call.called, local_wait |-> call.local_wait,
                      result |-> IF ~call.called THEN "Ok(None)"
                                 ELSE IF res = "Ok" THEN "Ok(Some)" ELSE res]
    /\ UNCHANGED <<this_peer, sizing, waiter, other_peer, fan_out, cpu>>

\* --------------------------------------------------- update_with_consistency
\* Lines 45-59: select the leader; no leader is an error, a remote leader is
\* forwarded to, and this peer as leader takes the ordering lock (Medium and
\* Strong) before it runs update().
UpdateWithConsistency(c, w, o) ==
    /\ pc[c] = "idle"
    /\ UNCHANGED elsewhere
    /\ wait' = [wait EXCEPT ![c] = w]
    /\ ordering' = [ordering EXCEPT ![c] = o]
    /\ leader' = [leader EXCEPT ![c] = LeaderPeerForUpdate(o)]
    /\ IF LeaderPeerForUpdate(o) = {}
       THEN Return(c, ServiceError("no leader could be selected"))
       ELSE /\ pc' = [pc EXCEPT ![c] =
                        IF LeaderPeerForUpdate(o) = {ThisPeerId}
                        THEN (IF o = "Weak" THEN "update" ELSE "lock")
                        ELSE "forward"]
            /\ UNCHANGED <<result, write_ordering_lock, successes, failures>>
    /\ UNCHANGED <<shared, local, active_remote_shards, update_futures, wcf,
                   minimal_success_count>>

\* Mutant of AcquireLock: the mutex is taken although another call holds it
AcquireLockNoExclusion(c) ==
    /\ pc[c] = "lock"
    /\ UNCHANGED elsewhere
    /\ write_ordering_lock' = write_ordering_lock \union {c}
    /\ pc' = [pc EXCEPT ![c] = "update"]
    /\ UNCHANGED <<shared, locals, wait, ordering, leader, result>>

\* Line 56: self.write_ordering_lock.lock().await
AcquireLock(c) ==
    /\ pc[c] = "lock"
    /\ UNCHANGED elsewhere
    /\ write_ordering_lock = {}
    /\ write_ordering_lock' = {c}
    /\ pc' = [pc EXCEPT ![c] = "update"]
    /\ UNCHANGED <<shared, locals, wait, ordering, leader, result>>

\* ------------------------------------------------------------------ update
\* Mutant of BuildTargets: an empty target set is not an error
BuildTargetsNoEmptyCheck(c) ==
    /\ pc[c] = "update"
    /\ UNCHANGED elsewhere
    /\ \E local_is_some \in BOOLEAN :
          /\ local' = [local EXCEPT ![c] = local_is_some]
          /\ active_remote_shards' =
                 [active_remote_shards EXCEPT ![c] =
                     {p \in Remotes : PeerIsActiveOrPending(p)}]
    /\ pc' = [pc EXCEPT ![c] = "futures"]
    /\ UNCHANGED <<shared, wait, ordering, leader, update_futures, wcf,
                   minimal_success_count, result, write_ordering_lock,
                   successes, failures>>

\* Lines 111-130: under the read guards of remotes and local, the remotes that
\* can receive updates, and whether the local replica can; nothing to update
\* is an error. Whether self.local holds a shard is the host's doing.
BuildTargets(c) ==
    /\ pc[c] = "update"
    /\ UNCHANGED elsewhere
    /\ \E local_is_some \in BOOLEAN :
         LET remote_targets == {p \in Remotes : PeerIsActiveOrPending(p)}
             local_is_updatable ==
                 local_is_some /\ PeerIsActiveOrPending(ThisPeerId)
         IN  IF remote_targets = {} /\ ~local_is_updatable
             THEN /\ Return(c, ServiceError("no active replica"))
                  /\ UNCHANGED <<local, active_remote_shards>>
             ELSE /\ local' = [local EXCEPT ![c] = local_is_some]
                  /\ active_remote_shards' =
                         [active_remote_shards EXCEPT ![c] = remote_targets]
                  /\ pc' = [pc EXCEPT ![c] = "futures"]
                  /\ UNCHANGED <<result, write_ordering_lock, successes,
                                 failures>>
    /\ UNCHANGED <<shared, wait, ordering, leader, update_futures, wcf,
                   minimal_success_count>>

\* Lines 134-156: the local replica is asked again whether it can receive
\* updates, and a Listener local replica is not waited for.
LocalFuture(c) ==
    IF local[c] /\ PeerIsActiveOrPending(ThisPeerId)
    THEN {[peer |-> ThisPeerId,
           wait |-> IF PeerState(ThisPeerId) = "Listener" THEN FALSE ELSE wait[c]]}
    ELSE {}

\* Lines 158-170: every remote that passed the filter, with the caller's wait
RemoteFutures(c) ==
    {[peer |-> p, wait |-> wait[c]] : p \in active_remote_shards[c]}

\* Lines 132-170: one future per target
BuildFutures(c) ==
    /\ pc[c] = "futures"
    /\ UNCHANGED elsewhere
    /\ update_futures' =
           [update_futures EXCEPT ![c] = LocalFuture(c) \union RemoteFutures(c)]
    /\ pc' = [pc EXCEPT ![c] = "fanout"]
    /\ UNCHANGED <<shared, write_ordering_lock, wait, ordering, leader, local,
                   active_remote_shards, wcf, minimal_success_count, successes,
                   failures, result>>

\* The results a fan-out over the futures fs can collect: every future
\* completes once, in any order, with Ok or with an error of its replica.
AllRes(fs) ==
    LET targets == {f.peer : f \in fs}
        n == Cardinality(targets)
    IN  {s \in [1..n -> [peer : targets, res : Outcomes]] :
            \A i, j \in 1..n : i # j => s[i].peer # s[j].peer}

\* Line 196, partition_result: the Ok results, in order
RECURSIVE OksOf(_)
OksOf(s) ==
    IF s = <<>> THEN <<>>
    ELSE IF Head(s).res = "Ok" THEN <<Head(s).peer>> \o OksOf(Tail(s))
    ELSE OksOf(Tail(s))

\* Line 196, partition_result: the Err results, in order
RECURSIVE ErrsOf(_)
ErrsOf(s) ==
    IF s = <<>> THEN <<>>
    ELSE IF Head(s).res # "Ok"
         THEN <<[peer |-> Head(s).peer, err |-> Head(s).res]>> \o ErrsOf(Tail(s))
    ELSE ErrsOf(Tail(s))

\* Lines 172-182 and 196: run the futures to completion and partition the
\* results; the block's guards and futures are dropped.
FanOut(c) ==
    /\ pc[c] = "fanout"
    /\ UNCHANGED elsewhere
    /\ \E all_res \in AllRes(update_futures[c]) :
          /\ successes' = [successes EXCEPT ![c] = OksOf(all_res)]
          /\ failures' = [failures EXCEPT ![c] = ErrsOf(all_res)]
    /\ update_futures' = [update_futures EXCEPT ![c] = {}]
    /\ active_remote_shards' = [active_remote_shards EXCEPT ![c] = {}]
    /\ local' = [local EXCEPT ![c] = FALSE]
    /\ pc' = [pc EXCEPT ![c] = "evaluate"]
    /\ UNCHANGED <<shared, write_ordering_lock, wait, ordering, leader, wcf,
                   minimal_success_count, result>>

\* The fan-out one replica call at a time. The futures not yet run:
Pending(c) ==
    {f \in update_futures[c] :
        /\ f \notin in_flight[c]
        /\ \A i \in 1..Len(collected[c]) : collected[c][i].peer # f.peer}

\* Mutant of CanStart: update_concurrency is not looked at
CanStartUnbounded(c) == TRUE

\* Lines 172-181: buffer_unordered(concurrency) runs at most concurrency
\* futures at a time, FuturesUnordered runs them all
CanStart(c) ==
    \/ update_concurrency = {}
    \/ \E concurrency \in update_concurrency :
          Cardinality(in_flight[c]) < concurrency

\* Lines 132-181: the next future of update_futures is run; the local future
\* comes first in update_futures, the remotes follow in the order of remotes
StartUpdate(c) ==
    /\ pc[c] = "fanout"
    /\ CanStart(c)
    /\ \E f \in Pending(c) :
          /\ (\E g \in Pending(c) : g.peer = ThisPeerId) => f.peer = ThisPeerId
          /\ in_flight' = [in_flight EXCEPT ![c] = @ \union {f}]
    /\ UNCHANGED <<this_peer, sizing, waiter, other_peer, local_update, update_concurrency,
                   collected, cpu>>

\* Lines 145-167 and 176/180: a replica's update comes back and its result,
\* tagged with the peer, is collected
CompleteUpdate(c) ==
    /\ pc[c] = "fanout"
    /\ \E f \in in_flight[c], res \in Outcomes :
          /\ in_flight' = [in_flight EXCEPT ![c] = @ \ {f}]
          /\ collected' = [collected EXCEPT ![c] =
                             Append(@, [peer |-> f.peer, res |-> res])]
    /\ UNCHANGED <<this_peer, sizing, waiter, other_peer, local_update, update_concurrency,
                   cpu>>

\* Lines 176/180, 182 and 196: the stream is exhausted; the results are
\* partitioned and the block's guards and futures are dropped.
Collect(c) ==
    /\ pc[c] = "fanout"
    /\ Pending(c) = {} /\ in_flight[c] = {}
    /\ successes' = [successes EXCEPT ![c] = OksOf(collected[c])]
    /\ failures' = [failures EXCEPT ![c] = ErrsOf(collected[c])]
    /\ collected' = [collected EXCEPT ![c] = <<>>]
    /\ update_futures' = [update_futures EXCEPT ![c] = {}]
    /\ active_remote_shards' = [active_remote_shards EXCEPT ![c] = {}]
    /\ local' = [local EXCEPT ![c] = FALSE]
    /\ pc' = [pc EXCEPT ![c] = "evaluate"]
    /\ UNCHANGED <<shared, write_ordering_lock, wait, ordering, leader, wcf,
                   minimal_success_count, result>>
    /\ UNCHANGED <<other_peer, local_update, update_concurrency, in_flight,
                   cpu, sizing, waiter>>

\* ------------------------------------------------- handle_failed_replicas
\* Mutant of HandleFailedReplicas: every deactivated peer forces the wait
RECURSIVE HandleFailedReplicasAlwaysWait(_, _, _)
HandleFailedReplicasAlwaysWait(fails, state, acc) ==
    IF fails = <<>> THEN acc
    ELSE LET peer_id == Head(fails).peer
             peer_state == state[peer_id]
         IN  IF peer_state # "Active" /\ peer_state # "Initializing"
             THEN HandleFailedReplicasAlwaysWait(Tail(fails), state, acc)
             ELSE HandleFailedReplicasAlwaysWait(Tail(fails), state,
                     [wait_for_deactivation |-> TRUE,
                      locally_disabled |->
                          AddLocallyDisabled(acc.locally_disabled, peer_id)])

\* Mutant of HandleFailedReplicas: only a transient failure disables the peer
RECURSIVE HandleFailedReplicasTransientOnly(_, _, _)
HandleFailedReplicasTransientOnly(fails, state, acc) ==
    IF fails = <<>> THEN acc
    ELSE LET peer_id == Head(fails).peer
             err == Head(fails).err
             peer_state == state[peer_id]
         IN  IF peer_state # "Active" /\ peer_state # "Initializing"
             THEN HandleFailedReplicasTransientOnly(Tail(fails), state, acc)
             ELSE IF IsTransient(err) \/ peer_state = "Initializing"
             THEN HandleFailedReplicasTransientOnly(Tail(fails), state,
                     [wait_for_deactivation |-> TRUE,
                      locally_disabled |->
                          AddLocallyDisabled(acc.locally_disabled, peer_id)])
             ELSE HandleFailedReplicasTransientOnly(Tail(fails), state, acc)

\* Lines 284-327, over the failures in order: acc is (wait_for_deactivation,
\* locally_disabled) so far, state the snapshot of the replica states.
RECURSIVE HandleFailedReplicas(_, _, _)
HandleFailedReplicas(fails, state, acc) ==
    IF fails = <<>> THEN acc
    ELSE LET peer_id == Head(fails).peer
             err == Head(fails).err
             peer_state == state[peer_id]
         IN  IF peer_state = Absent
             THEN HandleFailedReplicas(Tail(fails), state, acc)
             ELSE IF peer_state # "Active" /\ peer_state # "Initializing"
             THEN HandleFailedReplicas(Tail(fails), state, acc)
             ELSE HandleFailedReplicas(Tail(fails), state,
                     [wait_for_deactivation |->
                          acc.wait_for_deactivation
                              \/ IsTransient(err) \/ peer_state = "Initializing",
                      locally_disabled |->
                          AddLocallyDisabled(acc.locally_disabled, peer_id)])

\* Line 210: handle_failed_replicas(&failures, &self.replica_state.read())
HandleFailures(fails) ==
    HandleFailedReplicas(fails, replica_state,
        [wait_for_deactivation |-> FALSE, locally_disabled |-> locally_disabled])

\* Mutant of MinimalSuccessCount: the factor is not clamped to the results
MinimalSuccessCountNoClamp(w, total_results) == w

\* Line 194: write_consistency_factor.min(total_results)
MinimalSuccessCount(w, total_results) == Min(w, total_results)

\* Line 208: successes.len() >= minimal_success_count
QuorumMet(succ, minimal) == Len(succ) >= minimal

\* Mutant of MustWait: the caller's wait flag is not consulted
MustWaitIgnoringWait(w, wfd, fails) == wfd /\ fails # <<>>

\* Line 213: wait && wait_for_deactivation && !failures.is_empty()
MustWait(w, wfd, fails) == w /\ wfd /\ fails # <<>>

\* Lines 252-254: some successful peer is active
AnyActiveSuccess(succ, state, disabled) ==
    \E i \in 1..Len(succ) : PeerIsActiveIn(state, disabled, succ[i])

\* Mutant of UpdateResult: the check for an Active success is left out
UpdateResultNoActiveCheck(succ, fails, minimal, state, disabled) ==
    IF fails # <<>> /\ Len(succ) < minimal
    THEN ReplicaError(Head(fails).err, Head(fails).peer)
    ELSE IF succ = <<>>
    THEN ServiceError("no Active replica succeeded")
    ELSE OkResult(Head(succ))

\* Mutant of UpdateResult: any failure fails the write, quorum or not
UpdateResultAnyFailure(succ, fails, minimal, state, disabled) ==
    IF fails # <<>>
    THEN ReplicaError(Head(fails).err, Head(fails).peer)
    ELSE IF ~AnyActiveSuccess(succ, state, disabled)
    THEN ServiceError("no Active replica succeeded")
    ELSE OkResult(Head(succ))

\* Mutant of UpdateResult: a missed quorum returns the last failure's error
UpdateResultLastFailure(succ, fails, minimal, state, disabled) ==
    IF fails # <<>> /\ Len(succ) < minimal
    THEN ReplicaError(fails[Len(fails)].err, fails[Len(fails)].peer)
    ELSE IF ~AnyActiveSuccess(succ, state, disabled)
    THEN ServiceError("no Active replica succeeded")
    ELSE OkResult(Head(succ))

\* Lines 246-268: a missed quorum returns the first failure's error; a write
\* no Active replica applied is an error; otherwise the first success.
UpdateResult(succ, fails, minimal, state, disabled) ==
    IF fails # <<>> /\ Len(succ) < minimal
    THEN ReplicaError(Head(fails).err, Head(fails).peer)
    ELSE IF ~AnyActiveSuccess(succ, state, disabled)
    THEN ServiceError("no Active replica succeeded")
    ELSE OkResult(Head(succ))

\* Mutant of Evaluate: the failed replicas are handled on a missed quorum too
EvaluateHandlesOnMiss(c) ==
    /\ pc[c] = "evaluate"
    /\ UNCHANGED elsewhere
    /\ \E w \in 1..MaxW :
         LET total_results == Len(successes[c]) + Len(failures[c])
             minimal == MinimalSuccessCount(w, total_results)
             h == HandleFailures(failures[c])
         IN  /\ wcf' = [wcf EXCEPT ![c] = w]
             /\ minimal_success_count' =
                    [minimal_success_count EXCEPT ![c] = minimal]
             /\ IF QuorumMet(successes[c], minimal)
                THEN /\ locally_disabled' = h.locally_disabled
                     /\ IF MustWait(wait[c], h.wait_for_deactivation, failures[c])
                        THEN /\ pc' = [pc EXCEPT ![c] = "wait_for"]
                             /\ UNCHANGED <<result, write_ordering_lock,
                                            successes, failures>>
                        ELSE Return(c, UpdateResult(successes[c], failures[c],
                                           minimal, replica_state,
                                           h.locally_disabled))
                ELSE /\ Return(c, UpdateResult(successes[c], failures[c],
                                      minimal, replica_state, locally_disabled))
                     /\ locally_disabled' = h.locally_disabled
    /\ UNCHANGED <<replica_state, wait, ordering, leader, local,
                   active_remote_shards, update_futures>>

\* Lines 184-268 up to the deactivation wait: read the consistency factor and
\* compute the threshold; on quorum the failed replicas are handled under a
\* read lock of the replica states. The call then either has to wait for their
\* deactivation or goes on to its result without suspending.
Evaluate(c) ==
    /\ pc[c] = "evaluate"
    /\ UNCHANGED elsewhere
    /\ \E w \in 1..MaxW :
         LET total_results == Len(successes[c]) + Len(failures[c])
             minimal == MinimalSuccessCount(w, total_results)
             h == HandleFailures(failures[c])
         IN  /\ wcf' = [wcf EXCEPT ![c] = w]
             /\ minimal_success_count' =
                    [minimal_success_count EXCEPT ![c] = minimal]
             /\ IF QuorumMet(successes[c], minimal)
                THEN /\ locally_disabled' = h.locally_disabled
                     /\ IF MustWait(wait[c], h.wait_for_deactivation, failures[c])
                        THEN /\ pc' = [pc EXCEPT ![c] = "wait_for"]
                             /\ UNCHANGED <<result, write_ordering_lock,
                                            successes, failures>>
                        ELSE Return(c, UpdateResult(successes[c], failures[c],
                                           minimal, replica_state,
                                           h.locally_disabled))
                ELSE /\ Return(c, UpdateResult(successes[c], failures[c],
                                      minimal, replica_state, locally_disabled))
                     /\ UNCHANGED locally_disabled
    /\ UNCHANGED <<replica_state, wait, ordering, leader, local,
                   active_remote_shards, update_futures>>

\* Mutant of Deactivated: every failed peer must be Dead or gone
DeactivatedStrict(state, fails) ==
    \A i \in 1..Len(fails) : state[fails[i].peer] \in {"Dead", Absent}

\* Lines 222-230: no failed peer is Active; a peer that is not found counts
Deactivated(state, fails) ==
    \A i \in 1..Len(fails) :
        IF state[fails[i].peer] # Absent
        THEN state[fails[i].peer] # "Active"
        ELSE TRUE

\* ReplicaSetState::wait_for(predicate, timeout): what it can return when the
\* predicate holds (holds = TRUE) or does not hold as the wait ends. It
\* returns whether the predicate held before the deadline.
WaitFor(holds) == {holds}

\* Mutant of WaitForDeactivation: the wait has no timeout
WaitForDeactivationUnbounded(c) ==
    /\ pc[c] = "wait_for"
    /\ UNCHANGED elsewhere
    /\ Deactivated(replica_state, failures[c])
    /\ pc' = [pc EXCEPT ![c] = "check"]
    /\ UNCHANGED <<write_ordering_lock, successes, failures, result>>
    /\ UNCHANGED <<shared, local, active_remote_shards, update_futures, wcf,
                   minimal_success_count, wait, ordering, leader>>

\* Lines 213-243: the blocking wait for the failed peers' deactivation; when
\* it times out the call fails.
WaitForDeactivation(c) ==
    /\ pc[c] = "wait_for"
    /\ UNCHANGED elsewhere
    /\ \E shards_disabled \in WaitFor(Deactivated(replica_state, failures[c])) :
          IF ~shards_disabled
          THEN Return(c, ServiceError("deactivation timed out"))
          ELSE /\ pc' = [pc EXCEPT ![c] = "check"]
               /\ UNCHANGED <<write_ordering_lock, successes, failures, result>>
    /\ UNCHANGED <<shared, local, active_remote_shards, update_futures, wcf,
                   minimal_success_count, wait, ordering, leader>>

\* Lines 246-268 after the deactivation wait
Check(c) ==
    /\ pc[c] = "check"
    /\ UNCHANGED elsewhere
    /\ Return(c, UpdateResult(successes[c], failures[c],
                     minimal_success_count[c], replica_state, locally_disabled))
    /\ UNCHANGED <<shared, local, active_remote_shards, update_futures, wcf,
                   minimal_success_count, wait, ordering, leader>>

\* ---------------------------------------------------------- forward_update
\* Mutant of ForwardResult: a transient error comes back as it is
ForwardResultUnwrapped(p, res) ==
    IF res = "Ok" THEN OkResult(p) ELSE ReplicaError(res, p)

\* Lines 63-75: a transient error of the forwarding is wrapped into a service
\* error that names the leader, any other comes back as it is.
ForwardResult(p, res) ==
    IF res = "Ok" THEN OkResult(p)
    ELSE IF IsTransient(res)
    THEN [ServiceError("failed to apply update via leader peer")
              EXCEPT !.peer = {p}]
    ELSE ReplicaError(res, p)

\* Lines 59-62 and 336-349: look the leader up among the remotes and send it
\* the update. A leader that is no remote any more is a service error, which
\* comes back as it is.
ForwardUpdate(c) ==
    /\ pc[c] = "forward"
    /\ UNCHANGED elsewhere
    /\ \E p \in leader[c] :
          IF p \in Remotes
          THEN /\ pc' = [pc EXCEPT ![c] = "forwarding"]
               /\ UNCHANGED <<write_ordering_lock, successes, failures, result>>
          ELSE Return(c, ServiceError("removed from the replica set"))
    /\ UNCHANGED <<shared, local, active_remote_shards, update_futures, wcf,
                   minimal_success_count, wait, ordering, leader>>

\* Lines 341-343 and 63-75: the leader's forward_update comes back; a
\* transient error disables the leader locally.
ForwardUpdateReturns(c) ==
    /\ pc[c] = "forwarding"
    /\ UNCHANGED elsewhere
    /\ \E p \in leader[c], res \in Outcomes :
          /\ Return(c, ForwardResult(p, res))
          /\ locally_disabled' =
                 IF res # "Ok" /\ IsTransient(res)
                 THEN AddLocallyDisabled(locally_disabled, p)
                 ELSE locally_disabled
    /\ UNCHANGED <<replica_state, local, active_remote_shards, update_futures,
                   wcf, minimal_success_count, wait, ordering, leader>>

\* The caller has its result; the call's slot is free for the next call.
Finish(c) ==
    /\ pc[c] = "done"
    /\ UNCHANGED elsewhere
    /\ pc' = [pc EXCEPT ![c] = "idle"]
    /\ wait' = [wait EXCEPT ![c] = FALSE]
    /\ ordering' = [ordering EXCEPT ![c] = "Weak"]
    /\ leader' = [leader EXCEPT ![c] = {}]
    /\ local' = [local EXCEPT ![c] = FALSE]
    /\ active_remote_shards' = [active_remote_shards EXCEPT ![c] = {}]
    /\ update_futures' = [update_futures EXCEPT ![c] = {}]
    /\ wcf' = [wcf EXCEPT ![c] = 0]
    /\ minimal_success_count' = [minimal_success_count EXCEPT ![c] = 0]
    /\ successes' = [successes EXCEPT ![c] = <<>>]
    /\ failures' = [failures EXCEPT ![c] = <<>>]
    /\ result' = [result EXCEPT ![c] = NoResult]
    /\ UNCHANGED <<shared, write_ordering_lock>>

\* ------------------------------------------------------------ the other peer
\* Lines 45-59 at the other peer, over its own replica states and local-disable
\* set: no leader is an error, itself as leader is the local fan-out path,
\* any other leader is forwarded to.
OtherUpdateWithConsistency(o) ==
    /\ other_pc = "idle"
    /\ LET leader_peer ==
               LeaderPeerForUpdateIn(OtherPeerId, other_replica_state,
                                     other_locally_disabled, o)
       IN  /\ other_leader' = leader_peer
           /\ other_pc' = IF leader_peer = {} THEN "done"
                          ELSE IF leader_peer = {OtherPeerId} THEN "update"
                          ELSE "forward"
    /\ other_ordering' = o
    /\ UNCHANGED <<this_peer, sizing, waiter, other_replica_state, other_locally_disabled,
                   local_update, fan_out, cpu>>

\* The other peer's call returns
OtherFinish ==
    /\ other_pc # "idle"
    /\ other_pc' = "idle"
    /\ other_ordering' = "Weak"
    /\ other_leader' = {}
    /\ UNCHANGED <<this_peer, sizing, waiter, other_replica_state, other_locally_disabled,
                   local_update, fan_out, cpu>>

\* ---------------------------------------------------------------- consensus
\* Consensus gives peer p the state s (adding p if it is no member yet) and
\* the local disabling of p is cleared.
SetReplicaState(p, s) ==
    /\ replica_state[p] # s
    /\ UNCHANGED elsewhere
    /\ replica_state' = [replica_state EXCEPT ![p] = s]
    /\ locally_disabled' = locally_disabled \ {p}
    /\ UNCHANGED <<write_ordering_lock, pc, wait, ordering, leader, locals,
                   result>>

\* Consensus removes peer p from the replica set.
RemovePeer(p) ==
    /\ replica_state[p] # Absent
    /\ UNCHANGED elsewhere
    /\ replica_state' = [replica_state EXCEPT ![p] = Absent]
    /\ locally_disabled' = locally_disabled \ {p}
    /\ UNCHANGED <<write_ordering_lock, pc, wait, ordering, leader, locals,
                   result>>

\* ---------------------------------------------------------- specifications
Call(c) ==
    \/ \E w \in BOOLEAN, o \in WriteOrderings : UpdateWithConsistency(c, w, o)
    \/ AcquireLock(c)
    \/ BuildTargets(c)
    \/ BuildFutures(c)
    \/ FanOut(c)
    \/ Evaluate(c)
    \/ WaitForDeactivation(c)
    \/ Check(c)
    \/ ForwardUpdate(c)
    \/ ForwardUpdateReturns(c)
    \/ Finish(c)

Consensus ==
    \/ \E p \in PeerIds, s \in ReplicaStates : SetReplicaState(p, s)
    \/ \E p \in PeerIds : RemovePeer(p)

\* One call at a time, with consensus changing the replica states at any point
Next == Call(1) \/ Consensus

Spec == Init /\ [][Next]_vars

\* One call at a time while consensus never updates the replica states
NextQuiet == Call(1)

SpecQuiet == Init /\ [][NextQuiet]_vars

\* Concurrent calls over a replica set of at most NumConcPeers members, Active
\* or Initializing, whose states consensus leaves alone
ConcStates == {"Active", "Initializing"}

InitConc ==
    /\ replica_state \in
           {f \in [PeerIds -> ConcStates \union {Absent}] :
               \A p \in PeerIds : p > NumConcPeers => f[p] = Absent}
    /\ locally_disabled = {}
    /\ InitCalls
    /\ InitElsewhere

NextConc == \E c \in CallIds : Call(c)

SpecConc == InitConc /\ [][NextConc]_vars

\* What a call does once it is made, up to its return: the runtime keeps
\* polling the call's future, every replica call comes back, and the
\* deactivation wait ends with its timeout at the latest
Proceed(c) ==
    \/ BuildTargets(c)
    \/ BuildFutures(c)
    \/ FanOut(c)
    \/ Evaluate(c)
    \/ WaitForDeactivation(c)
    \/ Check(c)
    \/ ForwardUpdate(c)
    \/ ForwardUpdateReturns(c)
    \/ Finish(c)

\* Concurrent Medium- and Strong-ordered calls
NextOrdered ==
    \E c \in CallIds :
        \/ \E w \in BOOLEAN, o \in {"Medium", "Strong"} :
              UpdateWithConsistency(c, w, o)
        \/ AcquireLock(c)
        \/ Proceed(c)

\* The calls proceed; the ordering mutex (tokio's) hands the lock to its
\* waiters in turn, so a waiter that can take it again and again does
Fairness ==
    \A c \in CallIds : WF_vars(Proceed(c)) /\ SF_vars(AcquireLock(c))

SpecConcFair == InitConc /\ [][NextOrdered]_vars /\ Fairness

\* Leader selection over every replica-state map and local-disable set: the
\* call selects its leader and, when there is none, returns
InitLeader ==
    /\ replica_state \in [PeerIds -> ReplicaStates \union {Absent}]
    /\ locally_disabled \in SUBSET PeerIds
    /\ InitCalls
    /\ InitElsewhere

NextLeader ==
    \/ \E w \in BOOLEAN, o \in WriteOrderings : UpdateWithConsistency(1, w, o)
    \/ Finish(1)

SpecLeader == InitLeader /\ [][NextLeader]_vars

\* Two peers of the replica set, each selecting leaders over its own replica
\* states and local-disable set; a member is Active or Dead
ViewStates == {"Active", "Dead"}

InitPeers ==
    /\ replica_state \in [PeerIds -> ViewStates \union {Absent}]
    /\ locally_disabled \in SUBSET PeerIds
    /\ InitCalls
    /\ other_replica_state \in [PeerIds -> ViewStates \union {Absent}]
    /\ other_locally_disabled \in SUBSET PeerIds
    /\ OtherIdle
    /\ local_update = NoLocalUpdate
    /\ update_concurrency = {}
    /\ NoFanOut
    /\ NewCpuBudget(1)
    /\ NoSizing
    /\ waiter = NoWaiter

NextPeers ==
    \/ \E o \in WriteOrderings : UpdateWithConsistency(1, TRUE, o)
    \/ Finish(1)
    \/ \E o \in WriteOrderings : OtherUpdateWithConsistency(o)
    \/ OtherFinish

SpecPeers == InitPeers /\ [][NextPeers]_vars

\* One call at a time with its fan-out taken one replica call at a time, for
\* update_concurrency unset or set, over members that are Active or
\* Initializing and that consensus leaves alone
InitFanOut ==
    /\ replica_state \in [PeerIds -> ConcStates \union {Absent}]
    /\ locally_disabled = {}
    /\ InitCalls
    /\ NoOtherPeer
    /\ local_update = NoLocalUpdate
    /\ update_concurrency \in {{}} \union {{k} : k \in 1..MaxConcurrency}
    /\ NoFanOut
    /\ NewCpuBudget(1)
    /\ NoSizing
    /\ waiter = NoWaiter

NextFanOut ==
    \/ \E w \in BOOLEAN, o \in WriteOrderings : UpdateWithConsistency(1, w, o)
    \/ AcquireLock(1)
    \/ BuildTargets(1)
    \/ BuildFutures(1)
    \/ StartUpdate(1)
    \/ CompleteUpdate(1)
    \/ Collect(1)
    \/ Evaluate(1)
    \/ WaitForDeactivation(1)
    \/ Check(1)
    \/ ForwardUpdate(1)
    \/ ForwardUpdateReturns(1)
    \/ Finish(1)

SpecFanOut == InitFanOut /\ [][NextFanOut]_vars

\* --------------------------------------------------------------- CpuBudget
\* Lines 91-96: try_acquire(desired_cpus) reads the available permits and
\* selects the number to acquire; with nothing to acquire it returns None.
\* A task holds one CpuPermit at a time.
TryAcquire(t, desired_cpus) ==
    /\ cpu_task[t].pc = "idle"
    /\ ~cpu_task[t].live
    /\ LET num_cpus == Min(semaphore, desired_cpus)
       IN  cpu_task' = [cpu_task EXCEPT ![t] =
               [@ EXCEPT !.pc = IF num_cpus = 0 THEN "idle"
                                ELSE "try_acquire_many",
                         !.desired_cpus = desired_cpus,
                         !.num_cpus = num_cpus,
                         !.returned = IF num_cpus = 0 THEN "None" ELSE "-"]]
    /\ UNCHANGED <<this_peer, sizing, waiter, other_peer, local_update, fan_out, cpu_budget,
                   semaphore>>

\* Lines 99-106: try_acquire_many_owned(num_cpus) takes the selected number
\* of permits if that many are still there, and the call returns
\* Some(CpuPermit::new(num_cpus, permit)); on NoPermits the call returns None
TryAcquireMany(t) ==
    LET num_cpus == cpu_task[t].num_cpus
    IN  /\ cpu_task[t].pc = "try_acquire_many"
        /\ IF num_cpus <= semaphore
           THEN /\ semaphore' = semaphore - num_cpus
                /\ cpu_task' = [cpu_task EXCEPT ![t] =
                       [@ EXCEPT !.pc = "idle", !.returned = "Some",
                                 !.live = TRUE, !.permit = num_cpus]]
           ELSE /\ cpu_task' = [cpu_task EXCEPT ![t] =
                       [@ EXCEPT !.pc = "idle", !.returned = "None"]]
                /\ UNCHANGED semaphore
        /\ UNCHANGED <<this_peer, sizing, waiter, other_peer, local_update, fan_out,
                       cpu_budget>>

\* Lines 162-167: CpuPermit::dummy(count), a permit with no semaphore permit
\* behind it
Dummy(t, count) ==
    /\ cpu_task[t].pc = "idle"
    /\ ~cpu_task[t].live
    /\ cpu_task' = [cpu_task EXCEPT ![t] =
           [pc |-> "idle", desired_cpus |-> 0, num_cpus |-> count,
            returned |-> "-", live |-> TRUE, permit |-> 0]]
    /\ UNCHANGED <<this_peer, sizing, waiter, other_peer, local_update,
                   fan_out, cpu_budget, semaphore>>

\* Mutant of Release: the slots are given back and the semaphore permit is
\* left in the CpuPermit
ReleaseKeepsPermit(t) ==
    /\ cpu_task[t].live
    /\ semaphore' = semaphore + cpu_task[t].permit
    /\ UNCHANGED <<this_peer, sizing, waiter, other_peer, local_update,
                   fan_out, cpu_budget, cpu_task>>

\* Lines 170-172: release() takes the semaphore permit out of the CpuPermit;
\* dropping it gives its permits back. A second release finds None.
Release(t) ==
    /\ cpu_task[t].live
    /\ semaphore' = semaphore + cpu_task[t].permit
    /\ cpu_task' = [cpu_task EXCEPT ![t] = [@ EXCEPT !.permit = 0]]
    /\ UNCHANGED <<this_peer, sizing, waiter, other_peer, local_update, fan_out, cpu_budget>>

\* Mutant of Drop: the CpuPermit goes away with its semaphore permit forgotten
DropForgets(t) ==
    /\ cpu_task[t].live
    /\ cpu_task' = [cpu_task EXCEPT ![t] =
                       [@ EXCEPT !.permit = 0, !.live = FALSE]]
    /\ UNCHANGED <<this_peer, sizing, waiter, other_peer, local_update, fan_out, cpu_budget,
                   semaphore>>

\* Lines 175-179: the CpuPermit is dropped, which releases it
Drop(t) ==
    /\ cpu_task[t].live
    /\ semaphore' = semaphore + cpu_task[t].permit
    /\ cpu_task' = [cpu_task EXCEPT ![t] =
                       [@ EXCEPT !.permit = 0, !.live = FALSE]]
    /\ UNCHANGED <<this_peer, sizing, waiter, other_peer, local_update, fan_out, cpu_budget>>

\* Calls of update_local while consensus changes the replica states
InitLocal ==
    /\ replica_state \in [PeerIds -> ReplicaStates \union {Absent}]
    /\ locally_disabled \in SUBSET PeerIds
    /\ InitCalls
    /\ InitElsewhere

NextLocal ==
    \/ \E w \in BOOLEAN : UpdateLocal(w)
    \/ Consensus

SpecLocal == InitLocal /\ [][NextLocal]_vars

\* ------------------------------------------------------ block_until_budget
\* Lines 110-112: has_budget()
HasBudget == semaphore > 0

\* Lines 117-124: block_until_budget() returns at once if there is budget,
\* and else sets its first delay
BlockUntilBudget ==
    /\ waiter.pc = "idle"
    /\ waiter' = IF HasBudget THEN [pc |-> "returned", delay |-> 0]
                 ELSE [pc |-> "while", delay |-> InitialDelay]
    /\ UNCHANGED <<this_peer, other_peer, local_update, fan_out, cpu, sizing>>

\* Line 125: the loop's test of has_budget(); with budget, line 129 returns
Poll ==
    /\ waiter.pc = "while"
    /\ waiter' = [waiter EXCEPT !.pc = IF HasBudget THEN "returned"
                                       ELSE "sleep"]
    /\ UNCHANGED <<this_peer, other_peer, local_update, fan_out, cpu, sizing>>

\* Mutant of Sleep: the delay is not doubled
SleepSameDelay ==
    /\ waiter.pc = "sleep"
    /\ waiter' = [waiter EXCEPT !.pc = "while"]
    /\ UNCHANGED <<this_peer, other_peer, local_update, fan_out, cpu, sizing>>

\* Lines 126-127: the thread has slept for delay, and the delay is doubled up
\* to ten seconds
Sleep ==
    /\ waiter.pc = "sleep"
    /\ waiter' = [pc |-> "while", delay |-> Min(waiter.delay * 2, MaxDelay)]
    /\ UNCHANGED <<this_peer, other_peer, local_update, fan_out, cpu, sizing>>

\* Tasks acquiring and giving back while a thread calls block_until_budget
NextWait ==
    \/ \E t \in TaskIds :
          \/ \E desired_cpus \in 1..MaxDesired : TryAcquire(t, desired_cpus)
          \/ TryAcquireMany(t)
          \/ Release(t)
          \/ Drop(t)
    \/ BlockUntilBudget
    \/ Poll
    \/ Sleep

\* thread::sleep comes back and the loop goes on
WaiterProceeds == WF_vars(Poll \/ Sleep)

\* ---------------------------------------------------------- get_cpu_budget
IsizeMin == -(2 ^ (IsizeBits - 1))
IsizeMax == 2 ^ (IsizeBits - 1) - 1

\* x as usize, for an isize x
AsUsize(x) == x % (2 ^ IsizeBits)

\* usize::saturating_sub
SaturatingSub(a, b) == IF a >= b THEN a - b ELSE 0

Max(a, b) == IF a >= b THEN a ELSE b

\* Lines 36-51: default_cpu_budget(num_cpu)
DefaultCpuBudget(num_cpu) ==
    IF num_cpu <= 32 THEN -1
    ELSE IF num_cpu <= 48 THEN -2
    ELSE IF num_cpu <= 64 THEN -3
    ELSE IF num_cpu <= 96 THEN -4
    ELSE IF num_cpu <= 128 THEN -6
    ELSE -(num_cpu \div 16)

Returned(n) == [called |-> TRUE, panicked |-> FALSE, budget |-> n]

Panicked == [called |-> TRUE, panicked |-> TRUE, budget |-> 0]

\* Lines 64-66, Ordering::Less: -cpu_budget_param overflows for isize::MIN,
\* which panics in a build with overflow checks and wraps to isize::MIN in
\* one without
SubtractFromAvailable(param, num_cpus, checks) ==
    IF param = IsizeMin
    THEN IF checks THEN Panicked
         ELSE Returned(Max(SaturatingSub(num_cpus, AsUsize(IsizeMin)), 1))
    ELSE Returned(Max(SaturatingSub(num_cpus, AsUsize(-param)), 1))

\* Lines 61-72: get_cpu_budget(cpu_budget_param), get_num_cpus() giving
\* num_cpus
GetCpuBudget(param, num_cpus, checks) ==
    IF param < 0 THEN SubtractFromAvailable(param, num_cpus, checks)
    ELSE IF param = 0
    THEN SubtractFromAvailable(DefaultCpuBudget(num_cpus), num_cpus, checks)
    ELSE Returned(AsUsize(param))

\* get_cpu_budget is called with the setting
GetCpuBudgetCall ==
    /\ ~budget_found.called
    /\ budget_found' =
           GetCpuBudget(cpu_budget_param, num_cpus_found, overflow_checks)
    /\ UNCHANGED <<this_peer, other_peer, local_update, fan_out, cpu, waiter,
                   overflow_checks, num_cpus_found, cpu_budget_param>>

\* Every cpu_budget setting an isize holds, on machines of 1..MaxCpus CPUs,
\* in builds with and without overflow checks
InitSizing ==
    /\ replica_state = [p \in PeerIds |-> Absent]
    /\ locally_disabled = {}
    /\ InitCalls
    /\ NoOtherPeer
    /\ local_update = NoLocalUpdate
    /\ update_concurrency = {}
    /\ NoFanOut
    /\ NewCpuBudget(1)
    /\ waiter = NoWaiter
    /\ overflow_checks \in BOOLEAN
    /\ num_cpus_found \in 1..MaxCpus
    /\ cpu_budget_param \in IsizeMin..IsizeMax
    /\ budget_found = [called |-> FALSE, panicked |-> FALSE, budget |-> 0]

NextSizing == GetCpuBudgetCall

SpecSizing == InitSizing /\ [][NextSizing]_vars

\* Tasks sharing one CpuBudget, of every size up to MaxBudget; the replica
\* set is left alone
InitCpu ==
    /\ replica_state = [p \in PeerIds |-> Absent]
    /\ locally_disabled = {}
    /\ InitCalls
    /\ NoOtherPeer
    /\ local_update = NoLocalUpdate
    /\ update_concurrency = {}
    /\ NoFanOut
    /\ \E n \in 1..MaxBudget : NewCpuBudget(n)
    /\ NoSizing
    /\ waiter = NoWaiter

NextCpu ==
    \E t \in TaskIds :
        \/ \E desired_cpus \in 0..MaxDesired : TryAcquire(t, desired_cpus)
        \/ TryAcquireMany(t)
        \/ \E count \in 1..MaxDesired : Dummy(t, count)
        \/ Release(t)
        \/ Drop(t)

SpecCpu == InitCpu /\ [][NextCpu]_vars

SpecWait == InitCpu /\ [][NextWait]_vars /\ WaiterProceeds

\* A task holding a CpuPermit of h CPUs it got from try_acquire(d), or
\* nothing for h = 0
Holder(h, d) ==
    IF h = 0 THEN IdleTask
    ELSE [pc |-> "idle", desired_cpus |-> d, num_cpus |-> h,
          returned |-> "Some", live |-> TRUE, permit |-> h]

\* One task acquiring and giving back on its own, while another task keeps
\* what it holds, for every budget up to MaxBudget and every held number: the
\* holder got what it desired, or less when it took the whole budget
InitCpuAlone ==
    /\ replica_state = [p \in PeerIds |-> Absent]
    /\ locally_disabled = {}
    /\ InitCalls
    /\ NoOtherPeer
    /\ local_update = NoLocalUpdate
    /\ update_concurrency = {}
    /\ NoFanOut
    /\ \E n \in 1..MaxBudget, h \in 0..MaxBudget, d \in 0..MaxDesired :
          /\ h <= n
          /\ d = h \/ (h = n /\ d > h)
          /\ cpu_budget = n
          /\ semaphore = n - h
          /\ cpu_task = [t \in TaskIds |-> IF t = 2 THEN Holder(h, d)
                                           ELSE IdleTask]
    /\ NoSizing
    /\ waiter = NoWaiter

NextCpuAlone ==
    \/ \E desired_cpus \in 0..MaxDesired : TryAcquire(1, desired_cpus)
    \/ TryAcquireMany(1)
    \/ Release(1)
    \/ Drop(1)

SpecCpuAlone == InitCpuAlone /\ [][NextCpuAlone]_vars



\* ================================================================== claims
\* Vocabulary of the claims: a step of call c that returns from update(), the
\* peers that acknowledged or failed, and the threshold min(W, n) spelled out.
FanOutReturns(c) == pc[c] \in {"evaluate", "wait_for", "check"} /\ pc'[c] = "done"

SuccPeers(c) == {successes[c][i] : i \in 1..Len(successes[c])}

FailPeers(c) == {failures[c][i].peer : i \in 1..Len(failures[c])}

Dispatched(c) == Len(successes[c]) + Len(failures[c])

\* W as the evaluation of call c reads it, or has read it
ReadW(c) == IF pc[c] = "evaluate" THEN wcf'[c] ELSE wcf[c]

Threshold(c) == IF ReadW(c) <= Dispatched(c) THEN ReadW(c) ELSE Dispatched(c)

\* C1: whenever the local fan-out returns Ok, some peer among the successes
\* has replica state Active at the point of return; and when quorum is met but
\* no successful peer is Active, the call returns a ServiceError, not Ok.
C1_ActiveSuccessAtReturn ==
    [][\A c \in CallIds : FanOutReturns(c) =>
          /\ result'[c].tag = "Ok" =>
                 \E p \in SuccPeers(c) : replica_state'[p] = "Active"
          /\ (/\ Len(successes[c]) >= Threshold(c)
              /\ ~\E p \in SuccPeers(c) : replica_state'[p] = "Active")
                 => result'[c].tag = "Err" /\ result'[c].error = "ServiceError"
      ]_vars

\* A fan-out returned Ok with W = 2 although its first success came from a
\* peer that is not Active: another successful peer is the Active one.
C1_Witness ==
    /\ pc[1] = "done" /\ result[1].tag = "Ok" /\ leader[1] = {ThisPeerId}
    /\ wcf[1] = 2
    /\ \E p \in result[1].peer : replica_state[p] \in {"Partial", "Initializing"}

\* C2: the threshold the fan-out uses is exactly min(W, n) for W >= 1: a
\* replica's error comes back iff fewer than min(W, n) replicas succeeded, and
\* Ok is never returned with fewer than min(W, n) successes.
C2_ThresholdIsMin ==
    [][\A c \in CallIds :
          /\ (pc[c] = "evaluate" /\ pc'[c] # "evaluate") =>
                 /\ wcf'[c] >= 1
                 /\ minimal_success_count'[c] = Threshold(c)
                 /\ (pc'[c] = "done" /\ result'[c].error \in ReplicaErrors)
                        <=> Len(successes[c]) < Threshold(c)
          /\ (FanOutReturns(c) /\ result'[c].tag = "Ok") =>
                 Len(successes[c]) >= Threshold(c)
      ]_vars

\* W = 2 was clamped to the single dispatched target, and the write succeeded
C2_Witness ==
    /\ pc[1] = "done" /\ result[1].tag = "Ok" /\ leader[1] = {ThisPeerId}
    /\ wcf[1] = 2 /\ minimal_success_count[1] = 1

\* C3 as stated: whenever the fan-out meets quorum, the caller sees Ok.
C3_QuorumMetIsOk ==
    [][\A c \in CallIds :
          (FanOutReturns(c) /\ Len(successes[c]) >= Threshold(c))
              => result'[c].tag = "Ok"
      ]_vars

\* C3, amended: when the fan-out meets quorum the caller never sees a
\* replica's error. It sees Ok iff the deactivation wait (if any) did not time
\* out and some successful peer is Active and not locally disabled; otherwise
\* it sees the ServiceError of the timeout or of the missing Active success.
C3_QuorumMetOutcome ==
    [][\A c \in CallIds :
          (FanOutReturns(c) /\ Len(successes[c]) >= Threshold(c)) =>
              IF pc[c] = "wait_for"
              THEN result'[c] = ServiceError("deactivation timed out")
              ELSE IF \E p \in SuccPeers(c) :
                         replica_state'[p] = "Active" /\ p \notin locally_disabled'
              THEN result'[c].tag = "Ok" /\ result'[c].peer \subseteq SuccPeers(c)
              ELSE result'[c] = ServiceError("no Active replica succeeded")
      ]_vars

\* A partial failure met quorum: the failed peer is locally disabled, the
\* deactivation wait is over, and the call is about to return Ok.
C3_Witness ==
    /\ pc[1] = "check" /\ failures[1] # <<>>
    /\ Len(successes[1]) >= minimal_success_count[1]
    /\ FailPeers(1) \subseteq locally_disabled
    /\ \E p \in SuccPeers(1) : PeerIsActive(p)

\* C4: when the fan-out misses quorum, the first failure's error comes back as
\* it is, not wrapped in a ServiceError, and the call does not wait for any
\* deactivation.
C4_QuorumMissReturnsFirstFailure ==
    [][\A c \in CallIds :
          (pc[c] = "evaluate" /\ pc'[c] # "evaluate"
              /\ Len(successes[c]) < Threshold(c)) =>
                 /\ failures[c] # <<>>
                 /\ pc'[c] = "done"
                 /\ result'[c] = [tag |-> "Err", error |-> failures[c][1].err,
                                  msg |-> "", peer |-> {failures[c][1].peer}]
                 /\ result'[c].error # "ServiceError"
      ]_vars

\* All three replicas failed with W = 1 and the call returned a replica's
\* transient error
C4_Witness ==
    /\ pc[1] = "done" /\ leader[1] = {ThisPeerId}
    /\ result[1].tag = "Err" /\ result[1].error = "Timeout"
    /\ wcf[1] = 1 /\ minimal_success_count[1] = 1
    /\ locally_disabled = {}
    /\ \A p \in PeerIds : replica_state[p] = "Active"


\* A call inside update(): from the target-set build to the result
InFanOut(c) ==
    pc[c] \in {"update", "futures", "fanout", "evaluate", "wait_for", "check"}

\* C5: at a peer that selected itself as leader, at most one Medium- or
\* Strong-ordered write is inside the fan-out at any time, and the
\* write_ordering_lock is held only by a call that selected itself as leader
\* with Medium or Strong ordering and is inside the fan-out.
C5_OneOrderedWriteInFanOut ==
    /\ \A c1, c2 \in CallIds :
          (c1 # c2 /\ InFanOut(c1) /\ InFanOut(c2))
              => (ordering[c1] = "Weak" \/ ordering[c2] = "Weak")
    /\ \A c \in write_ordering_lock :
          /\ ordering[c] \in {"Medium", "Strong"}
          /\ leader[c] = {ThisPeerId}
          /\ InFanOut(c)
    /\ \A c \in CallIds :
          (InFanOut(c) /\ ordering[c] # "Weak") => c \in write_ordering_lock

\* A Medium or Strong write waits for the deactivation of a failed peer while
\* the next one is queued on the lock
C5_Witness ==
    \E c1, c2 \in CallIds :
        /\ c1 \in write_ordering_lock /\ pc[c1] = "wait_for"
        /\ pc[c2] = "lock"

Writable == {"Active", "Initializing", "Partial", "Listener"}

\* C6: every replica the fan-out calls had, when the target set was built, a
\* replica state in {Active, Initializing, Partial, Listener} and was not
\* locally disabled; the local replica is called only if local is present; and
\* the replicas that return a result are exactly the targets.
C6_TargetsEligible ==
    [][\A c \in CallIds :
          /\ (pc[c] = "update" /\ pc'[c] = "futures") =>
                 \A p \in active_remote_shards'[c] :
                     /\ p # ThisPeerId
                     /\ replica_state[p] \in Writable
                     /\ p \notin locally_disabled
          /\ (pc[c] = "futures" /\ pc'[c] = "fanout") =>
                 \A f \in update_futures'[c] :
                     IF f.peer = ThisPeerId
                     THEN /\ local[c]
                          /\ replica_state[ThisPeerId] \in Writable
                          /\ ThisPeerId \notin locally_disabled
                     ELSE f.peer \in active_remote_shards[c]
          /\ (pc[c] = "fanout" /\ pc'[c] = "evaluate") =>
                 (SuccPeers(c) \union FailPeers(c))' =
                     {f.peer : f \in update_futures[c]}
      ]_vars

\* A fan-out is about to call its targets, and an Active but locally disabled
\* peer is not among them
C6_Witness ==
    /\ pc[1] = "fanout" /\ update_futures[1] # {}
    /\ \E p \in locally_disabled :
          /\ replica_state[p] = "Active"
          /\ p \notin {f.peer : f \in update_futures[1]}

\* What the claims say forces the wait: a failure of a peer that is Active or
\* Initializing in state, with a transient error or on an Initializing peer
ForcesWait(fails, state) ==
    \E i \in 1..Len(fails) :
        /\ state[fails[i].peer] \in {"Active", "Initializing"}
        /\ IsTransient(fails[i].err) \/ state[fails[i].peer] = "Initializing"

\* C7: handle_failed_replicas answers wait_for_deactivation = TRUE iff some
\* failure is of a peer that the snapshot has as Active or Initializing and
\* either its error is transient or the peer is Initializing.
C7_WaitForDeactivationIff ==
    \A c \in CallIds : pc[c] = "evaluate" =>
        (HandleFailures(failures[c]).wait_for_deactivation
             <=> ForcesWait(failures[c], replica_state))

\* The only failure is a non-transient one of an Active peer, the caller asked
\* to wait, and handle_failed_replicas does not force the wait
C7_Witness ==
    /\ pc[1] = "evaluate" /\ wait[1] /\ successes[1] # <<>>
    /\ Len(failures[1]) = 1 /\ failures[1][1].err = "BadInput"
    /\ replica_state[failures[1][1].peer] = "Active"
    /\ ~HandleFailures(failures[1]).wait_for_deactivation

\* C8: on a quorum-met fan-out, the peers added to locally_disabled are exactly
\* the failed peers whose snapshot state is Active or Initializing, whatever
\* their error; no successful peer is added.
C8_DisabledAreActiveOrInitializingFailures ==
    [][\A c \in CallIds :
          (pc[c] = "evaluate" /\ pc'[c] # "evaluate"
              /\ Len(successes[c]) >= Threshold(c)) =>
                 /\ locally_disabled' = locally_disabled \union
                        {p \in FailPeers(c) :
                            replica_state[p] \in {"Active", "Initializing"}}
                 /\ (locally_disabled' \ locally_disabled) \cap SuccPeers(c) = {}
      ]_vars

\* After a quorum-met fan-out one failed peer is locally disabled and another,
\* in state Partial, is not
C8_Witness ==
    /\ pc[1] = "wait_for"
    /\ \E i, j \in 1..Len(failures[1]) :
          /\ failures[1][i].peer \in locally_disabled
          /\ failures[1][j].peer \notin locally_disabled
          /\ replica_state[failures[1][j].peer] = "Partial"

\* C9: after quorum is met the call blocks on the replica states iff wait is
\* TRUE, wait_for_deactivation is TRUE and there are failures; the wait ends
\* with the Active-success check when no failed peer is Active (a missing peer
\* counts), and with the ServiceError of the timeout otherwise.
C9_DeactivationWait ==
    [][\A c \in CallIds :
          /\ (pc[c] = "evaluate" /\ pc'[c] # "evaluate") =>
                 (pc'[c] = "wait_for" <=>
                     /\ Len(successes[c]) >= Threshold(c)
                     /\ wait[c]
                     /\ ForcesWait(failures[c], replica_state)
                     /\ failures[c] # <<>>)
          /\ (pc[c] = "wait_for" /\ pc'[c] # "wait_for") =>
                 IF \A p \in FailPeers(c) : replica_state[p] # "Active"
                 THEN pc'[c] = "check" /\ result'[c] = NoResult
                 ELSE /\ pc'[c] = "done"
                      /\ result'[c] = ServiceError("deactivation timed out")
      ]_vars

\* The wait ended because the failed peer left the replica set
C9_Witness ==
    /\ pc[1] = "check"
    /\ \E p \in FailPeers(1) : replica_state[p] = Absent

\* The scenario of C10 as call c sees it: W = w, wait = TRUE, two successes,
\* one on an Active and one on a Partial peer, and one transient failure of a
\* peer in state failed
Scenario(c, w, failed) ==
    /\ wait[c] /\ w = 2
    /\ Len(successes[c]) = 2
    /\ {replica_state[p] : p \in SuccPeers(c)} = {"Active", "Partial"}
    /\ Len(failures[c]) = 1
    /\ IsTransient(failures[c][1].err)
    /\ replica_state[failures[c][1].peer] = failed

\* C10 as stated: in the scenario with the failure on an Initializing peer and
\* consensus never updating, the call returns the ServiceError of the
\* deactivation timeout.
C10_InitializingFailureTimesOut ==
    [][\A c \in CallIds :
          (FanOutReturns(c) /\ Scenario(c, ReadW(c), "Initializing"))
              => result'[c] = ServiceError("deactivation timed out")
      ]_vars

\* C10, amended: with consensus never updating, the scenario with the failure
\* on an Initializing peer returns Ok after a wait that ends at once, the
\* failed peer locally disabled; the same scenario with the failure on an
\* Active peer returns the ServiceError of the deactivation timeout.
C10_TimeoutOnlyForActiveFailure ==
    [][\A c \in CallIds : FanOutReturns(c) =>
          /\ Scenario(c, ReadW(c), "Initializing") =>
                 /\ pc[c] = "check"
                 /\ result'[c].tag = "Ok"
                 /\ FailPeers(c) \subseteq locally_disabled'
          /\ Scenario(c, ReadW(c), "Active") =>
                 /\ pc[c] = "wait_for"
                 /\ result'[c] = ServiceError("deactivation timed out")
      ]_vars

\* The scenario with the Initializing failure, its wait over
C10_Witness ==
    /\ pc[1] = "check"
    /\ Scenario(1, wcf[1], "Initializing")

\* The selector as the specification words it: the greatest of the candidates
GreatestOf(cand) == {p \in cand : \A q \in cand : q <= p}

ReferenceSelector(this_peer_id, state, disabled, o) ==
    IF o = "Weak" THEN {this_peer_id}
    ELSE IF o = "Medium"
    THEN GreatestOf({p \in PeerIds : state[p] = "Active" /\ p \notin disabled})
    ELSE GreatestOf({p \in PeerIds : state[p] # Absent})

\* C11: leader_peer_for_update equals the reference selector for every
\* replica-state map, local-disable set and this_peer_id: Weak gives
\* this_peer_id; Medium the highest peer that is Active and not locally
\* disabled, or none; Strong the highest member whatever its state and whatever
\* is locally disabled, or none for an empty map. A call that has selected
\* its leader holds the reference selector's answer.
C11_LeaderIsReferenceSelector ==
    /\ \A this_peer_id \in PeerIds, o \in WriteOrderings :
          LeaderPeerForUpdateIn(this_peer_id, replica_state, locally_disabled, o)
              = ReferenceSelector(this_peer_id, replica_state,
                                  locally_disabled, o)
    /\ \A c \in CallIds : pc[c] # "idle" =>
          leader[c] = ReferenceSelector(ThisPeerId, replica_state,
                                        locally_disabled, ordering[c])

\* With peers 1 and 2 Active and peer 3 Partial, a Medium call selected peer 2
\* where Strong selects peer 3
C11_Witness ==
    /\ replica_state = [p \in PeerIds |-> IF p <= 2 THEN "Active"
                                          ELSE IF p = 3 THEN "Partial"
                                          ELSE Absent]
    /\ locally_disabled = {}
    /\ pc[1] = "forward" /\ ordering[1] = "Medium" /\ leader[1] = {2}
    /\ LeaderPeerForUpdate("Strong") = {3}

\* C12: under Strong ordering two peers whose replica-state maps have the same
\* key set select the same leader, whatever the replica states and whatever
\* their local-disable sets hold; so two such peers never both take the local
\* fan-out path for a Strong-ordered write.
C12_StrongLeaderDeterministic ==
    Keys(replica_state) = Keys(other_replica_state) =>
        /\ LeaderPeerForUpdateIn(ThisPeerId, replica_state, locally_disabled,
                                 "Strong")
             = LeaderPeerForUpdateIn(OtherPeerId, other_replica_state,
                                     other_locally_disabled, "Strong")
        /\ (/\ pc[1] # "idle" /\ ordering[1] = "Strong"
            /\ other_pc # "idle" /\ other_ordering = "Strong") =>
               /\ leader[1] = other_leader
               /\ ~(leader[1] = {ThisPeerId} /\ other_leader = {OtherPeerId})

\* Both peers selected peer 3 for a Strong write; one has it as Dead and
\* locally disabled, the other as Active
C12_Witness ==
    /\ Keys(replica_state) = Keys(other_replica_state)
    /\ pc[1] = "forward" /\ ordering[1] = "Strong" /\ leader[1] = {3}
    /\ other_pc = "forward" /\ other_ordering = "Strong" /\ other_leader = {3}
    /\ replica_state[3] = "Dead" /\ 3 \in locally_disabled
    /\ other_replica_state[3] = "Active" /\ other_locally_disabled = {}

C14_LocallyDisabledAreMembers == locally_disabled \subseteq Keys(replica_state)

\* The forwarding to the leader is in flight while the leader is no member of
\* the replica set any more
C14_Witness ==
    /\ pc[1] = "forwarding"
    /\ leader[1] \cap Keys(replica_state) = {}

\* A peer the target set can take: writable and not locally disabled
Eligible(p) == replica_state[p] \in Writable /\ p \notin locally_disabled

\* C15: when this peer is leader and the target set is empty (no eligible
\* remote, and the local replica absent or not eligible), the call fails with
\* the 'no active replica' ServiceError and no update call is issued to any
\* replica; with an eligible remote the call goes on to its fan-out.
C15_EmptyTargetSet ==
    [][\A c \in CallIds : (pc[c] = "update" /\ pc'[c] # "update") =>
          LET remote_targets == {p \in PeerIds \ {ThisPeerId} : Eligible(p)}
              fails == /\ pc'[c] = "done"
                       /\ result'[c] = ServiceError("no active replica")
          IN  /\ update_futures[c] = {}
              /\ successes[c] = <<>> /\ failures[c] = <<>>
              /\ (remote_targets = {} /\ ~Eligible(ThisPeerId)) => fails
              /\ pc'[c] = "done" =>
                    /\ fails
                    /\ remote_targets = {}
                    /\ update_futures'[c] = {}
                    /\ successes'[c] = <<>> /\ failures'[c] = <<>>
              /\ pc'[c] # "done" =>
                    /\ pc'[c] = "futures"
                    /\ remote_targets # {} \/ (Eligible(ThisPeerId) /\ local'[c])
      ]_vars

\* A Weak write found no target: this peer is Active but hosts no local
\* replica, and its only remote is Dead
C15_Witness ==
    /\ pc[1] = "done" /\ ordering[1] = "Weak"
    /\ result[1] = ServiceError("no active replica")
    /\ replica_state[ThisPeerId] = "Active" /\ locally_disabled = {}
    /\ \E p \in Remotes : replica_state[p] = "Dead"

\* C16 as stated: every target whose replica state is Listener, local or
\* remote, is invoked with wait = FALSE even when the caller passed TRUE, and
\* every other target with the caller's wait.
C16_ListenerNotWaitedFor ==
    [][\A c \in CallIds : (pc[c] = "futures" /\ pc'[c] = "fanout") =>
          \A f \in update_futures'[c] :
              f.wait = IF replica_state[f.peer] = "Listener" THEN FALSE
                       ELSE wait[c]
      ]_vars

\* A fan-out of a caller that waits is about to call a remote Listener
C16_Witness ==
    /\ pc[1] = "fanout" /\ wait[1]
    /\ \E f \in update_futures[1] :
          f.peer # ThisPeerId /\ replica_state[f.peer] = "Listener"

\* C17: update_local calls the local shard iff local is present and this
\* peer's state is Active, Partial, Initializing or Listener, with wait FALSE
\* for Listener and the caller's wait otherwise; for PartialSnapshot, Dead, an
\* unknown state or an absent local it returns Ok(None) without calling the
\* shard. It calls no remote and leaves locally_disabled and the
\* write_ordering_lock as they are.
C17_UpdateLocal ==
    [][local_update' # local_update =>
          LET state == replica_state[ThisPeerId]
              call == local_update'
          IN  /\ call.called <=>
                     /\ call.local_is_some
                     /\ state \in {"Active", "Partial", "Initializing",
                                   "Listener"}
              /\ call.called =>
                     /\ call.local_wait =
                            IF state = "Listener" THEN FALSE ELSE call.wait
                     /\ call.result \in {"Ok(Some)"} \union ReplicaErrors
              /\ ~call.called =>
                     /\ call.result = "Ok(None)"
                     /\ \/ ~call.local_is_some
                        \/ state \in {"PartialSnapshot", "Dead", Absent}
              /\ UNCHANGED <<locally_disabled, write_ordering_lock,
                             replica_state, update_futures, successes,
                             failures, pc>>
      ]_vars

\* update_local with wait = TRUE updated a local Listener replica that is
\* locally disabled, without waiting
C17_Witness ==
    /\ local_update.called /\ local_update.wait /\ ~local_update.local_wait
    /\ local_update.result = "Ok(Some)"
    /\ replica_state[ThisPeerId] = "Listener"
    /\ ThisPeerId \in locally_disabled

\* The targets of call c's fan-out and those whose result is collected
Targets(c) == {f.peer : f \in update_futures[c]}

CollectedPeers(c) == {collected[c][i].peer : i \in 1..Len(collected[c])}

\* The orders in which the results r could have been collected
OrdersOf(r) ==
    {t \in [1..Len(r) -> {r[i] : i \in 1..Len(r)}] :
        \A i, j \in 1..Len(r) : i # j => t[i] # t[j]}

\* What call c makes of the results r with consistency factor w, leaving out
\* which success or failure came first
DispatchOutcome(c, r, w) ==
    LET succ == OksOf(r)
        fails == ErrsOf(r)
        minimal == MinimalSuccessCount(w, Len(r))
        h == HandleFailures(fails)
        quorum == QuorumMet(succ, minimal)
        disabled == IF quorum THEN h.locally_disabled ELSE locally_disabled
        res == UpdateResult(succ, fails, minimal, replica_state, disabled)
    IN  [quorum |-> quorum,
         waits |-> quorum /\ MustWait(wait[c], h.wait_for_deactivation, fails),
         disabled |-> disabled,
         tag |-> res.tag,
         service_error |-> res.error = "ServiceError",
         msg |-> res.msg]

\* C18: with update_concurrency = k no more than k replica calls of one
\* fan-out are in flight at any point; no target is lost or called twice, and
\* as long as a target is left some call can start or come back, so that
\* every target is invoked and its result collected before the fan-out ends;
\* with update_concurrency unset a pending call can start whatever the number
\* in flight. What the call makes of the results does not depend on the order
\* they were collected in, except for which success or failure is the first.
C18_BoundedFanOut ==
    \A c \in CallIds : pc[c] = "fanout" =>
        /\ \A k \in update_concurrency : Cardinality(in_flight[c]) <= k
        /\ in_flight[c] \subseteq update_futures[c]
        /\ CollectedPeers(c) \subseteq Targets(c)
        /\ {f.peer : f \in in_flight[c]} \cap CollectedPeers(c) = {}
        /\ Len(collected[c]) = Cardinality(CollectedPeers(c))
        /\ (Pending(c) # {} /\ in_flight[c] = {}) => ENABLED StartUpdate(c)
        /\ (Pending(c) # {} /\ update_concurrency = {})
               => ENABLED StartUpdate(c)
        /\ in_flight[c] # {} => ENABLED CompleteUpdate(c)
        /\ (Pending(c) = {} /\ in_flight[c] = {}) =>
               /\ ENABLED Collect(c)
               /\ CollectedPeers(c) = Targets(c)
               /\ \A w \in 1..MaxW, r \in OrdersOf(collected[c]) :
                      DispatchOutcome(c, r, w)
                          = DispatchOutcome(c, collected[c], w)
        /\ ~(Pending(c) = {} /\ in_flight[c] = {}) => ~ENABLED Collect(c)

\* With update_concurrency = 1 and three targets: one result is collected,
\* one call is in flight and one target waits for its turn
C18_Witness ==
    /\ pc[1] = "fanout" /\ update_concurrency = {1}
    /\ Cardinality(Targets(1)) = 3
    /\ Len(collected[1]) = 1
    /\ Cardinality(in_flight[1]) = 1
    /\ Cardinality(Pending(1)) = 1

\* C19: the write_ordering_lock is never held forever. When every replica
\* call returns, a Medium or Strong write that took the lock releases it on
\* each of its exit paths, the deactivation wait being bounded by its
\* timeout; and a write queued on the lock takes it, even though consensus
\* never updates the replica states.
C19_LockIsReleased ==
    \A c \in CallIds :
        /\ (c \in write_ordering_lock) ~> (c \notin write_ordering_lock)
        /\ (pc[c] = "lock") ~> (c \in write_ordering_lock)

\* A write returned with the deactivation timeout and a write that was queued
\* behind it holds the lock
C19_Witness ==
    \E c1, c2 \in CallIds :
        /\ pc[c1] = "done" /\ ordering[c1] # "Weak"
        /\ result[c1] = ServiceError("deactivation timed out")
        /\ c2 \in write_ordering_lock /\ pc[c2] = "update"

\* C20 as stated, for desired >= 1: whenever a call try_acquire(desired)
\* returns None, zero slots are available at that moment, also with other
\* tasks calling try_acquire at the same time.
C20_NoneOnlyWhenNothingAvailable ==
    [][\A t \in TaskIds :
          (/\ cpu_task[t].returned = "-"
           /\ cpu_task'[t].returned = "None"
           /\ cpu_task'[t].desired_cpus >= 1) => semaphore = 0]_vars

\* A call try_acquire(desired) with desired >= 1 has selected a number of
\* CPUs, found that many no longer there and returned None, with a slot
\* still available
C20_Witness ==
    \E t \in TaskIds :
        /\ cpu_task[t].pc = "idle"
        /\ cpu_task[t].returned = "None"
        /\ cpu_task[t].desired_cpus >= 1
        /\ cpu_task[t].num_cpus >= 1
        /\ semaphore >= 1
        /\ semaphore < cpu_task[t].num_cpus

\* Sum of the CPUs held through the semaphore permits of the tasks in S
RECURSIVE HeldBy(_)
HeldBy(S) ==
    IF S = {} THEN 0
    ELSE LET t == CHOOSE u \in S : TRUE
         IN  cpu_task[t].permit + HeldBy(S \ {t})

\* C21: for every budget and every k, once a successful try_acquire(k) has
\* been followed by a release or a drop of the permit it returned, the
\* available permits are what they were before the acquire: the budget less
\* what the other tasks hold all along.
C21_AcquireThenDropRestores ==
    (/\ cpu_task[1].pc = "idle"
     /\ cpu_task[1].returned = "Some"
     /\ cpu_task[1].permit = 0)
        => semaphore = cpu_budget - HeldBy(TaskIds \ {1})

\* A permit of two CPUs, got while another task held one, has been dropped
C21_Witness ==
    /\ cpu_task[1].pc = "idle"
    /\ cpu_task[1].returned = "Some"
    /\ cpu_task[1].num_cpus = 2
    /\ ~cpu_task[1].live
    /\ cpu_task[2].permit = 1

\* f(N) of the budget sizing: the CPUs reserved for the foreground
Reserved(n) ==
    IF n <= 32 THEN 1
    ELSE IF n <= 48 THEN 2
    ELSE IF n <= 64 THEN 3
    ELSE IF n <= 96 THEN 4
    ELSE IF n <= 128 THEN 6
    ELSE n \div 16

\* |P|
Abs(x) == IF x < 0 THEN -x ELSE x

\* The budget for the setting P on N CPUs
BudgetFor(P, N) ==
    IF P > 0 THEN P
    ELSE IF P < 0 THEN Max(1, N - Abs(P))
    ELSE Max(1, N - Reserved(N))

\* C22 as stated: for every N >= 1 and every P, get_cpu_budget(P) returns P
\* when P > 0, max(1, N - |P|) when P < 0 and max(1, N - f(N)) when P = 0,
\* which is at least 1.
C22_BudgetForEverySetting ==
    budget_found.called =>
        /\ ~budget_found.panicked
        /\ budget_found.budget = BudgetFor(cpu_budget_param, num_cpus_found)
        /\ budget_found.budget >= 1

\* get_cpu_budget(isize::MIN) has panicked on the negation
C22_Witness ==
    /\ budget_found.called
    /\ budget_found.panicked
    /\ cpu_budget_param = IsizeMin

\* The delays block_until_budget sleeps for: 100 us doubled, up to 10 s
RECURSIVE DelaysFrom(_)
DelaysFrom(d) ==
    IF d >= MaxDelay THEN {MaxDelay} ELSE {d} \union DelaysFrom(2 * d)

\* C23: block_until_budget returns at once when there is budget; otherwise
\* it polls has_budget, sleeping 100 us first, twice as long after each poll
\* and never more than 10 s; it returns only on a poll that saw budget; it
\* takes no slot; and a waiting call that finds a slot available returns,
\* unless the slot is taken again before the next poll.
C23_BlockUntilBudget ==
    /\ [][/\ ((waiter.pc = "idle" /\ waiter'.pc = "returned") => HasBudget)
           /\ ((waiter.pc = "idle" /\ waiter' # waiter /\ HasBudget)
                  => waiter'.pc = "returned")
           /\ ((waiter.pc = "idle" /\ waiter'.pc = "while")
                  => waiter'.delay = InitialDelay)
           /\ ((waiter.pc = "while" /\ waiter'.pc = "returned") => HasBudget)
           /\ ((waiter.pc = "while" /\ waiter'.pc = "sleep")
                  => (~HasBudget /\ waiter'.delay = waiter.delay))
           /\ ((waiter.pc = "sleep" /\ waiter' # waiter)
                  => (/\ waiter'.pc = "while"
                      /\ waiter'.delay = Min(2 * waiter.delay, MaxDelay)))
           /\ (waiter' # waiter => UNCHANGED cpu)]_vars
    /\ [](waiter.pc \in {"while", "sleep"}
            => waiter.delay \in DelaysFrom(InitialDelay))
    /\ ((waiter.pc \in {"while", "sleep"} /\ HasBudget)
            ~> (waiter.pc = "returned" \/ ~HasBudget))

\* block_until_budget has returned after sleeping up to the longest delay
C23_Witness ==
    /\ waiter.pc = "returned"
    /\ waiter.delay = MaxDelay

\* Sum of num_cpus over the live CpuPermits of the tasks in S that still hold
\* a semaphore permit
RECURSIVE CpusOfBackedPermits(_)
CpusOfBackedPermits(S) ==
    IF S = {} THEN 0
    ELSE LET t == CHOOSE u \in S : TRUE
         IN  (IF cpu_task[t].live /\ cpu_task[t].permit > 0
              THEN cpu_task[t].num_cpus ELSE 0)
             + CpusOfBackedPermits(S \ {t})

\* C24: in every reachable state the available permits plus the num_cpus of
\* all live, unreleased, semaphore-backed permits make up the budget the
\* CpuBudget was created with, and the available permits do not exceed it,
\* whatever the interleaving of try_acquire, release and drop, with released
\* permits dropped afterwards and dummy permits around.
C24_SlotConservation ==
    /\ semaphore + CpusOfBackedPermits(TaskIds) = cpu_budget
    /\ semaphore <= cpu_budget

\* One task has released its permit of two CPUs and not dropped it yet, while
\* the other holds a dummy permit
C24_Witness ==
    /\ cpu_task[1].live
    /\ cpu_task[1].returned = "Some"
    /\ cpu_task[1].num_cpus = 2
    /\ cpu_task[1].permit = 0
    /\ cpu_task[2].live
    /\ cpu_task[2].returned = "-"
    /\ cpu_task[2].num_cpus >= 1

\* C25 as stated: a fan-out that has passed its empty-target check issues at
\* least one per-replica update call, also when consensus or the local-disable
\* set changes between the two eligibility checks of the local replica.
C25_FanOutIssuesACall ==
    \A c \in CallIds : pc[c] = "fanout" => update_futures[c] # {}

\* A call has passed the empty-target check on its local replica alone and
\* has built no update future
C25_Witness ==
    /\ pc[1] = "fanout"
    /\ local[1]
    /\ active_remote_shards[1] = {}
    /\ update_futures[1] = {}

\* C26: when the fan-out misses its quorum (|successes| < min(W, n)) the
\* failed replicas are not handled: locally_disabled stays as it is, the call
\* does not wait for any deactivation and returns the first failure's error,
\* also when every failure is transient and the failing peers are Active.
C26_QuorumMissDisablesNobody ==
    [][\A c \in CallIds :
          (/\ pc[c] = "evaluate"
           /\ pc'[c] # "evaluate"
           /\ Len(successes[c]) < minimal_success_count'[c])
              => /\ locally_disabled' = locally_disabled
                 /\ pc'[c] = "done"
                 /\ result'[c] = ReplicaError(Head(failures[c]).err,
                                              Head(failures[c]).peer)]_vars

\* A write asking for two successes has returned the timeout of an Active
\* peer, and nobody is locally disabled
C26_Witness ==
    /\ pc[1] = "done"
    /\ wcf[1] = 2
    /\ minimal_success_count[1] = 2
    /\ result[1].tag = "Err"
    /\ result[1].error = "Timeout"
    /\ \A p \in result[1].peer : replica_state[p] = "Active"
    /\ locally_disabled = {}

====
